---- MODULE Spec2Model ----
(***************************************************************************)
(* A model of django-fluent-pages' page type registry                     *)
(* (fluent_pages/extensions.py: PageTypePool and its lazy plugin scan)    *)
(* and of the published-page resolver (ecms/managers.py:                  *)
(* CmsObjectManager).                                                     *)
(*                                                                         *)
(* Three specifications share the variables:                              *)
(*   Spec          the plugin pool; the record store is empty and idle    *)
(*   ManagerSpec   the resolver; the pool is empty and idle               *)
(*   ResponseSpec  PageTypePlugin.get_response; pool and store are idle   *)
(***************************************************************************)
EXTENDS Integers, Sequences, FiniteSets

VARIABLES
    INSTALLED_APPS,  \* settings.INSTALLED_APPS: per app, its page_type_plugins module
    pool,            \* the PageTypePool object: plugins, plugin_for_model, detected, admin_site
    interp,          \* the interpreter: sys.modules, objects created, and the counts of
                     \* scans started and of module executions
    last,            \* the last call on the pool: operation, argument, branch, outcome
    db,              \* the stored CmsObject rows
    mlast,           \* the last call on the manager: operation, arguments, outcome
    rlast            \* the last get_response call: plugin, request, page, outcome

vars == <<INSTALLED_APPS, pool, interp, last, db, mlast, rlast>>

---------------------------------------------------------------------------
(* Bounds *)

NumApps == 2        \* length of INSTALLED_APPS
MaxScans == 2       \* scans started per behaviour (a failing scan is retried for ever)
MaxPathLen == 3     \* length of the path strings handed to get_for_path
NumRecords == 2     \* rows in the CmsObject table

---------------------------------------------------------------------------
(* Python values *)

None == "None"

\* d[k] = v on a dict
DictSet(d, k, v) == [x \in (DOMAIN d) \cup {k} |-> IF x = k THEN v ELSE d[x]]

EmptyDict == [x \in {} |-> None]

Values(d) == {d[k] : k \in DOMAIN d}

NoExc == [type |-> "", msg |-> <<>>]

Exc(type, msg) == [type |-> type, msg |-> msg]

\* needle in str(e): the message is kept as the sequence of its parts
Contains(msg, needle) == \E i \in 1..Len(msg) : msg[i] = needle

---------------------------------------------------------------------------
(* The model classes and plugin classes the pool is exercised with *)

\* direct base class of each model class; User is not a UrlNode
ModelBaseOf ==
    [UrlNode |-> None, FluentPage |-> "UrlNode", TextFile |-> "UrlNode",
     SubFluentPage |-> "FluentPage", User |-> None]

ModelClasses == DOMAIN ModelBaseOf

RECURSIVE issubclass(_, _)
issubclass(c, base) ==
    IF c = None THEN FALSE
    ELSE IF c = base THEN TRUE
    ELSE issubclass(ModelBaseOf[c], base)

\* id: the class object; name: its __name__; isPlugin: derives from PageTypePlugin
PluginClasses ==
    { [id |-> "FluentPagePlugin", name |-> "FluentPagePlugin", isPlugin |-> TRUE,
       model |-> "FluentPage", model_admin |-> "FluentPageAdmin"],
      [id |-> "TextFilePlugin", name |-> "TextFilePlugin", isPlugin |-> TRUE,
       model |-> "TextFile", model_admin |-> "UrlNodeAdmin"],
      \* a second plugin bound to FluentPage
      [id |-> "LandingPagePlugin", name |-> "LandingPagePlugin", isPlugin |-> TRUE,
       model |-> "FluentPage", model_admin |-> "UrlNodeAdmin"],
      \* another class that is also called TextFilePlugin
      [id |-> "other.TextFilePlugin", name |-> "TextFilePlugin", isPlugin |-> TRUE,
       model |-> "SubFluentPage", model_admin |-> "UrlNodeAdmin"],
      \* classes the upfront checks reject
      [id |-> "NoModelPlugin", name |-> "FluentPagePlugin", isPlugin |-> TRUE,
       model |-> None, model_admin |-> "UrlNodeAdmin"],
      [id |-> "UserPlugin", name |-> "UserPlugin", isPlugin |-> TRUE,
       model |-> "User", model_admin |-> "UrlNodeAdmin"],
      [id |-> "NotAPlugin", name |-> "NotAPlugin", isPlugin |-> FALSE,
       model |-> "TextFile", model_admin |-> "UrlNodeAdmin"] }

ClassIds == {c.id : c \in PluginClasses}

Class(id) == CHOOSE c \in PluginClasses : c.id = id

---------------------------------------------------------------------------
(* page_type_plugins modules: what importing one executes *)

SUBMODULE == "page_type_plugins"

\* exists: the app has the submodule; regs: the classes its top level registers,
\* in order; raises: the exception its top level ends with, if any
AbsentModule == [exists |-> FALSE, regs |-> <<>>, raises |-> NoExc]

FluentPageModule == [exists |-> TRUE, regs |-> <<"FluentPagePlugin">>, raises |-> NoExc]

TextFileModule == [exists |-> TRUE, regs |-> <<"TextFilePlugin">>, raises |-> NoExc]

LandingPageModule == [exists |-> TRUE, regs |-> <<"LandingPagePlugin">>, raises |-> NoExc]

\* registers, then fails on an import of its own: "No module named markup"
BrokenModule ==
    [exists |-> TRUE, regs |-> <<"TextFilePlugin">>,
     raises |-> Exc("ImportError", <<"No module named ", "markup">>)]

\* fails on an import of its own whose message holds the submodule's name:
\* "No module named page_type_plugins_base"
BrokenNamedModule ==
    [exists |-> TRUE, regs |-> <<"other.TextFilePlugin">>,
     raises |-> Exc("ImportError", <<"No module named ", SUBMODULE, "_base">>)]

Modules ==
    {AbsentModule, FluentPageModule, TextFileModule, LandingPageModule,
     BrokenModule, BrokenNamedModule}

---------------------------------------------------------------------------
(* PageTypePlugin: the response of a page *)

\* The plugin instances get_response is called on.  name: the class's __name__;
\* render_template, response_class: the class attributes; get_render_template,
\* get_response: the class whose definition of the method the instance uses.
RenderPlugins ==
    { \* the attributes as PageTypePlugin sets them
      [name |-> "BarePlugin", render_template |-> None,
       response_class |-> "TemplateResponse",
       get_render_template |-> "PageTypePlugin", get_response |-> "PageTypePlugin"],
      [name |-> "EmptyTemplatePlugin", render_template |-> "",
       response_class |-> "TemplateResponse",
       get_render_template |-> "PageTypePlugin", get_response |-> "PageTypePlugin"],
      [name |-> "StaticPagePlugin", render_template |-> "page.html",
       response_class |-> "TemplateResponse",
       get_render_template |-> "PageTypePlugin", get_response |-> "PageTypePlugin"],
      [name |-> "PlainPagePlugin", render_template |-> "plain.html",
       response_class |-> "SimpleTemplateResponse",
       get_render_template |-> "PageTypePlugin", get_response |-> "PageTypePlugin"],
      [name |-> "FluentPagePlugin", render_template |-> None,
       response_class |-> "TemplateResponse",
       get_render_template |-> "FluentPagePlugin", get_response |-> "PageTypePlugin"],
      [name |-> "TextFilePlugin", render_template |-> None,
       response_class |-> "TemplateResponse",
       get_render_template |-> "PageTypePlugin", get_response |-> "TextFilePlugin"] }

Requests == {"request1", "request2"}

\* a page: template_path is page.layout.template_path, content and content_type
\* are the fields of a text file
Pages ==
    [parent_site : {"site1", "site2"}, template_path : {"", "layout.html"},
     content_type : {"text/plain", "text/css", "image/png"}, content : {"body"}]

NoPage == [parent_site |-> None, template_path |-> None,
           content_type |-> None, content |-> None]

\* TextFile.UTF8_TYPES
UTF8_TYPES == {"text/plain", "text/css"}

\* a response object: TemplateResponse(request, template, context), or
\* HttpResponse(content, content_type); a content type is kept as its parts
NoResponse ==
    [cls |-> None, request |-> None, template |-> None,
     context |-> [page |-> NoPage, site |-> None],
     content |-> None, content_type |-> <<>>]

\* self.response_class(request = request, template = render_template, context = context)
response_class(plugin, request, render_template, context) ==
    [NoResponse EXCEPT !.cls = plugin.response_class, !.request = request,
                       !.template = render_template, !.context = context]

\* HttpResponse(content = content, content_type = content_type)
HttpResponse(content, content_type) ==
    [NoResponse EXCEPT !.cls = "HttpResponse", !.content = content,
                       !.content_type = content_type]

\* PageTypePlugin.get_render_template, and FluentPagePlugin's
get_render_template(plugin, request, page) ==
    IF plugin.get_render_template = "FluentPagePlugin"
    THEN page.template_path
    ELSE plugin.render_template

\* PageTypePlugin.get_context
get_context(plugin, request, page) ==
    [page |-> page, site |-> page.parent_site]

\* the test of get_response with only None taken as missing
template_missing_none_only(render_template) == render_template = None

\* not render_template
template_missing(render_template) == render_template \in {None, ""}

\* What a get_response call did: the methods it called in order (calls), and
\* the exception it raised or the response it returned.
Rendering(calls, exc, response) == [calls |-> calls, exc |-> exc, response |-> response]

\* PageTypePlugin.get_response
get_response(plugin, request, page) ==
    LET render_template == get_render_template(plugin, request, page)
    IN  IF template_missing(render_template)
        THEN Rendering(<<"get_render_template">>,
                       Exc("ImproperlyConfigured",
                           <<plugin.name, " should either provide a definition of 'render_template' or an implementation of 'get_response()'">>),
                       NoResponse)
        ELSE LET context == get_context(plugin, request, page)
             IN  Rendering(<<"get_render_template", "get_context", "response_class">>,
                           NoExc,
                           response_class(plugin, request, render_template, context))

\* TextFilePlugin.get_response
textfile_get_response(plugin, request, textfile) ==
    LET content_type ==
            IF textfile.content_type \in UTF8_TYPES
            THEN <<textfile.content_type, "; charset=utf-8">>
            ELSE <<textfile.content_type>>
    IN  Rendering(<<"HttpResponse">>, NoExc, HttpResponse(textfile.content, content_type))

NoRendering ==
    [op |-> "", plugin |-> None, request |-> None, page |-> NoPage,
     out |-> Rendering(<<>>, NoExc, NoResponse)]

\* plugin.get_response(request, page), as the plugin's class defines it
GetResponse(plugin, request, page) ==
    /\ rlast' = [op |-> "get_response", plugin |-> plugin.name,
                 request |-> request, page |-> page,
                 out |-> IF plugin.get_response = "TextFilePlugin"
                         THEN textfile_get_response(plugin, request, page)
                         ELSE get_response(plugin, request, page)]
    /\ UNCHANGED <<INSTALLED_APPS, pool, interp, last, db, mlast>>

---------------------------------------------------------------------------
(* PageTypePool *)

\* PageTypePool.__init__
PoolInit ==
    [plugins |-> EmptyDict, plugin_for_model |-> EmptyDict,
     detected |-> FALSE, admin_site |-> EmptyDict]

\* sys_modules: the apps whose page_type_plugins module is imported;
\* created: per plugin class, and per model for its admin, the instances made so
\* far (an object's identity is what it is an instance of and its serial);
\* returned: the plugin instances whose register call returned normally;
\* scans, execs: scans started, and executions of each app's module
InterpInit ==
    [sys_modules |-> {}, returned |-> {},
     created |-> [c \in ClassIds \cup ModelClasses \cup {None} |-> 0],
     scans |-> 0, execs |-> [i \in 1..NumApps |-> 0]]

\* A world w is what a call works on and hands back: the pool, the interpreter
\* and the exception in flight (NoExc when the call returns).
World(p, i) == [pool |-> p, interp |-> i, exc |-> NoExc]

Raise(w, type, msg) == [w EXCEPT !.exc = Exc(type, msg)]

\* register_checks with only its first assert
register_checks_model_unchecked(plugin) ==
    IF ~plugin.isPlugin
    THEN Exc("AssertionError", <<"The plugin must inherit from PageTypePlugin">>)
    ELSE NoExc

\* the three assert statements of register
register_checks(plugin) ==
    IF ~plugin.isPlugin
    THEN Exc("AssertionError", <<"The plugin must inherit from PageTypePlugin">>)
    ELSE IF plugin.model = None
    THEN Exc("AssertionError", <<"The plugin has no model defined">>)
    ELSE IF ~issubclass(plugin.model, "UrlNode")
    THEN Exc("AssertionError", <<"The plugin model must inherit from ContentItem">>)
    ELSE NoExc

\* name_registered with the test left out
name_registered_never(w, name) == FALSE

\* name in self.plugins
name_registered(w, name) == name \in DOMAIN w.pool.plugins

\* admin.AdminSite.register(model, admin_class) as django.contrib.admin does it:
\* a model that is in _registry is refused, else an admin_class instance is stored
admin_site_register(w, model, admin_class) ==
    IF model \in DOMAIN w.pool.admin_site
    THEN Raise(w, "AlreadyRegistered", <<"The model is already registered">>)
    ELSE [w EXCEPT
            !.pool.admin_site =
                DictSet(@, model, [cls |-> admin_class, model |-> model,
                                   serial |-> w.interp.created[model] + 1]),
            !.interp.created[model] = @ + 1]

\* plugin_instance = plugin(); the two dict stores
register_store(w, plugin) ==
    LET plugin_instance == [cls |-> plugin.id, model |-> plugin.model,
                            serial |-> w.interp.created[plugin.id] + 1]
    IN  [w EXCEPT
            !.pool.plugins = DictSet(@, plugin.name, plugin_instance),
            !.pool.plugin_for_model = DictSet(@, plugin.model, plugin.name),
            !.interp.created[plugin.id] = @ + 1]

\* register that also marks the pool as detected when it has stored the plugin
register_marks_detected(w, plugin) ==
    LET failed == register_checks(plugin)
    IN  IF failed # NoExc THEN [w EXCEPT !.exc = failed]
        ELSE IF name_registered(w, plugin.name)
        THEN Raise(w, "PageTypeAlreadyRegistered",
                   <<plugin.name, "a plugin with this name is already registered">>)
        ELSE LET w1 == register_store(w, plugin)
                 w2 == admin_site_register(w1, plugin.model, plugin.model_admin)
             IN  IF w2.exc # NoExc THEN w2
                 ELSE [w2 EXCEPT !.pool.detected = TRUE,
                                 !.interp.returned =
                                    @ \cup {w1.pool.plugins[plugin.name]}]

\* PageTypePool.register(plugin)
register(w, plugin) ==
    LET failed == register_checks(plugin)
    IN  IF failed # NoExc THEN [w EXCEPT !.exc = failed]
        ELSE IF name_registered(w, plugin.name)
        THEN Raise(w, "PageTypeAlreadyRegistered",
                   <<plugin.name, "a plugin with this name is already registered">>)
        ELSE LET w1 == register_store(w, plugin)
                 w2 == admin_site_register(w1, plugin.model, plugin.model_admin)
             IN  IF w2.exc # NoExc THEN w2
                 ELSE [w2 EXCEPT !.interp.returned =
                                    @ \cup {w1.pool.plugins[plugin.name]}]

\* the top level of a page_type_plugins module: its register calls in order,
\* up to the first one that raises
RECURSIVE exec_regs(_, _, _)
exec_regs(w, regs, k) ==
    IF k > Len(regs) \/ w.exc # NoExc THEN w
    ELSE exec_regs(register(w, Class(regs[k])), regs, k + 1)

\* import_module('.' + submodule, app): a module in sys.modules is not executed
\* again; a module whose top level raises is not kept in sys.modules
import_module(w, apps, app) ==
    LET module == apps[app]
    IN  IF app \in w.interp.sys_modules THEN w
        ELSE IF ~module.exists
        THEN Raise(w, "ImportError", <<"No module named ", SUBMODULE>>)
        ELSE LET w0 == [w EXCEPT !.interp.execs[app] = @ + 1]
                 w1 == exec_regs(w0, module.regs, 1)
             IN  IF w1.exc # NoExc THEN w1
                 ELSE IF module.raises # NoExc THEN [w1 EXCEPT !.exc = module.raises]
                 ELSE [w1 EXCEPT !.interp.sys_modules = @ \cup {app}]

\* the except clause of _import_apps_submodule: TRUE when the exception is passed over
import_error_ignored(exc, submodule) ==
    exc.type = "ImportError" /\ Contains(exc.msg, submodule)

\* _import_apps_submodule(submodule): the loop over settings.INSTALLED_APPS, from app
RECURSIVE import_apps_from(_, _, _, _)
import_apps_from(w, apps, submodule, app) ==
    IF app > Len(apps) THEN w
    ELSE LET w1 == import_module(w, apps, app)
         IN  IF w1.exc = NoExc
             THEN import_apps_from(w1, apps, submodule, app + 1)
             ELSE IF import_error_ignored(w1.exc, submodule)
             THEN import_apps_from([w1 EXCEPT !.exc = NoExc], apps, submodule, app + 1)
             ELSE w1

_import_apps_submodule(w, apps, submodule) ==
    import_apps_from([w EXCEPT !.interp.scans = @ + 1], apps, submodule, 1)

\* _import_plugins without the test of detected
_import_plugins_unguarded(w, apps) ==
    LET w1 == _import_apps_submodule(w, apps, SUBMODULE)
    IN  IF w1.exc # NoExc THEN w1
        ELSE [w1 EXCEPT !.pool.detected = TRUE]

\* _import_plugins that sets detected before the scan, not after it
_import_plugins_marks_first(w, apps) ==
    IF w.pool.detected THEN w
    ELSE _import_apps_submodule([w EXCEPT !.pool.detected = TRUE], apps, SUBMODULE)

\* PageTypePool._import_plugins
_import_plugins(w, apps) ==
    IF w.pool.detected THEN w
    ELSE LET w1 == _import_apps_submodule(w, apps, SUBMODULE)
         IN  IF w1.exc # NoExc THEN w1
             ELSE [w1 EXCEPT !.pool.detected = TRUE]

---------------------------------------------------------------------------
(* What a call hands back: the exception raised, or the value returned.  A *)
(* returned list of plugins is the set plugins, a list of models the count *)
(* of each model in models, one object the singleton one.                  *)

NoModels == [m \in ModelClasses \cup {None} |-> 0]

Outcome(exc, plugins, models, one) ==
    [exc |-> exc, plugins |-> plugins, models |-> models, one |-> one]

Raised(exc) == Outcome(exc, {}, NoModels, {})

\* PageTypePool.get_plugins
get_plugins(w) ==
    IF w.exc # NoExc THEN Raised(w.exc)
    ELSE Outcome(NoExc, Values(w.pool.plugins), NoModels, {})

\* PageTypePool.get_model_classes
get_model_classes(w) ==
    IF w.exc # NoExc THEN Raised(w.exc)
    ELSE Outcome(NoExc, {},
                 [m \in ModelClasses \cup {None} |->
                    Cardinality({n \in DOMAIN w.pool.plugins : w.pool.plugins[n].model = m})],
                 {})

\* PageTypePool.get_plugin_by_model
get_plugin_by_model(w, model_class) ==
    IF w.exc # NoExc THEN Raised(w.exc)
    ELSE IF ~issubclass(model_class, "UrlNode")
    THEN Raised(Exc("AssertionError", <<>>))
    ELSE IF model_class \notin DOMAIN w.pool.plugin_for_model
    THEN Raised(Exc("PageTypeNotFound", <<"No plugin found for model ", model_class>>))
    ELSE Outcome(NoExc, {}, NoModels,
                 {w.pool.plugins[w.pool.plugin_for_model[model_class]]})

\* PageTypePool.get_model_admin
get_model_admin(w, model_class) ==
    IF w.exc # NoExc THEN Raised(w.exc)
    ELSE IF ~issubclass(model_class, "UrlNode")
    THEN Raised(Exc("AssertionError", <<>>))
    ELSE IF model_class \notin DOMAIN w.pool.admin_site
    THEN Raised(Exc("PageTypeNotFound", <<"No ModelAdmin found for model ", model_class>>))
    ELSE Outcome(NoExc, {}, NoModels, {w.pool.admin_site[model_class]})

---------------------------------------------------------------------------
(* The calls on the pool *)

\* branch: whether the call ran the scan ("scan") or found it done ("skip")
Call(op, arg, w, out) ==
    /\ pool' = w.pool
    /\ interp' = w.interp
    /\ last' = [op |-> op, arg |-> arg,
                branch |-> IF w.interp.scans = interp.scans THEN "skip" ELSE "scan",
                out |-> out]
    /\ UNCHANGED <<INSTALLED_APPS, db, mlast, rlast>>

\* a failing scan is started again by every getter call: MaxScans bounds the count
MayScan == pool.detected \/ interp.scans < MaxScans

Register(P) ==
    LET w == register(World(pool, interp), Class(P))
    IN  Call("register", P, w, Raised(w.exc))

GetPlugins ==
    /\ MayScan
    /\ LET w == _import_plugins(World(pool, interp), INSTALLED_APPS)
       IN  Call("get_plugins", None, w, get_plugins(w))

GetModelClasses ==
    /\ MayScan
    /\ LET w == _import_plugins(World(pool, interp), INSTALLED_APPS)
       IN  Call("get_model_classes", None, w, get_model_classes(w))

GetPluginByModel(m) ==
    /\ MayScan
    /\ LET w == _import_plugins(World(pool, interp), INSTALLED_APPS)
       IN  Call("get_plugin_by_model", m, w, get_plugin_by_model(w, m))

GetModelAdmin(m) ==
    /\ MayScan
    /\ LET w == _import_plugins(World(pool, interp), INSTALLED_APPS)
       IN  Call("get_model_admin", m, w, get_model_admin(w, m))

NoCall == [op |-> "", arg |-> None, branch |-> "", out |-> Raised(NoExc)]

NoQuery == [op |-> "", path |-> <<>>, current |-> 0, out |-> [exc |-> "", objs |-> {}]]

Init ==
    /\ INSTALLED_APPS \in [1..NumApps -> Modules]
    /\ pool = PoolInit
    /\ interp = InterpInit
    /\ last = NoCall
    /\ db = {}
    /\ mlast = NoQuery
    /\ rlast = NoRendering

Next ==
    \/ \E P \in ClassIds : Register(P)
    \/ GetPlugins
    \/ GetModelClasses
    \/ \E m \in ModelClasses : GetPluginByModel(m)
    \/ \E m \in ModelClasses : GetModelAdmin(m)

Spec == Init /\ [][Next]_vars

---------------------------------------------------------------------------
(* CmsObjectManager: strings are sequences of characters *)

Chars == {"/", "a"}

RECURSIVE Strings(_)
Strings(n) ==
    IF n = 0 THEN {<<>>}
    ELSE Strings(n - 1) \cup {Append(s, c) : s \in Strings(n - 1), c \in Chars}

\* the paths handed to the manager
Paths == Strings(MaxPathLen)

\* truth value of a Python string
Truthy(s) == s # <<>>

\* lstrip that leaves the string as it is
lstrip_nothing(s, c) == s

\* str.lstrip(c)
RECURSIVE lstrip(_, _)
lstrip(s, c) == IF s # <<>> /\ Head(s) = c THEN lstrip(Tail(s), c) ELSE s

\* str.rstrip(c)
RECURSIVE rstrip(_, _)
rstrip(s, c) ==
    IF s # <<>> /\ s[Len(s)] = c THEN rstrip(SubSeq(s, 1, Len(s) - 1), c) ELSE s

\* str.strip(c)
strip(s, c) == rstrip(lstrip(s, c), c)

\* the first two statements of get_for_path:
\*   stripped = path.strip('/');  stripped and u'/%s/' % stripped or '/'
lookup_key(path) ==
    LET stripped == strip(path, "/")
        formatted == <<"/">> \o stripped \o <<"/">>
        conj == IF Truthy(stripped) THEN formatted ELSE stripped
    IN  IF Truthy(conj) THEN conj ELSE <<"/">>

(* The CmsObject table *)

PUBLISHED == "PUBLISHED"

DRAFT == "DRAFT"

\* parent = NULL: the row has no parent; ids start at 1
NULL == 0

Ids == 1..NumRecords

\* cached urls are normalized: the root "/", or "/segment/"
CachedUrls == {lookup_key(<<>>), lookup_key(<<"a">>)}

\* the rows a record of the given id can be; a parent is a record saved before it
Rows(id) ==
    [id : {id}, status : {PUBLISHED, DRAFT}, in_navigation : BOOLEAN,
     parent : {NULL} \cup {j \in Ids : j < id}, _cached_url : CachedUrls]

Tables == {{f[i] : i \in Ids} : f \in {g \in [Ids -> UNION {Rows(i) : i \in Ids}] :
                                          \A i \in Ids : g[i].id = i}}

\* a record that is in no table (its row was deleted)
StaleRecord ==
    [id |-> NumRecords + 1, status |-> PUBLISHED, in_navigation |-> TRUE,
     parent |-> NULL, _cached_url |-> lookup_key(<<>>)]

\* A query set is the set of the objects it yields; an object is a row with
\* the attributes set on it (is_current is "unset" until add_prop sets it).
get_query_set(table) == {[row |-> r, is_current |-> "unset"] : r \in table}

MOutcome(exc, objs) == [exc |-> exc, objs |-> objs]

\* QuerySet.get(_cached_url=key)
get(qs, key) ==
    LET found == {o \in qs : o.row._cached_url = key}
    IN  IF found = {} THEN MOutcome("DoesNotExist", {})
        ELSE IF Cardinality(found) > 1 THEN MOutcome("MultipleObjectsReturned", {})
        ELSE MOutcome("", found)

\* published without its filter
published_unfiltered(table) == get_query_set(table)

\* CmsObjectManager.published
published(table) == {o \in get_query_set(table) : o.row.status = PUBLISHED}

\* in_navigation that filters the whole table, not the published records
in_navigation_of_all(table) == {o \in get_query_set(table) : o.row.in_navigation = TRUE}

\* CmsObjectManager.in_navigation
in_navigation(table) == {o \in published(table) : o.row.in_navigation = TRUE}

\* CmsObjectManager.get_for_path
get_for_path(table, path) == get(published(table), lookup_key(path))

\* CmsObjectManager.get_for_path_or_404
get_for_path_or_404(table, path) ==
    LET found == get_for_path(table, path)
    IN  IF found.exc = "DoesNotExist" THEN MOutcome("Http404", {}) ELSE found

\* add_prop that marks every object
add_prop_always(obj, current_id) == [obj EXCEPT !.is_current = "True"]

\* add_prop of _mark_current: obj.is_current = (obj.id == current_id)
add_prop(obj, current_id) ==
    [obj EXCEPT !.is_current = IF obj.row.id = current_id THEN "True" ELSE "False"]

\* _mark_current: qs.decorate(add_prop) applies add_prop to each object yielded
_mark_current(qs, current_page) ==
    LET current_id == current_page.id
    IN  {add_prop(obj, current_id) : obj \in qs}

\* CmsObjectManager.toplevel_navigation; current_page = None is no_page
toplevel_navigation(table, given, current_page) ==
    LET items == {o \in in_navigation(table) : o.row.parent = NULL}
    IN  IF given THEN _mark_current(items, current_page) ELSE items

---------------------------------------------------------------------------
(* The calls on the manager.  The manager only reads the table, so a         *)
(* behaviour is a table and one query on it.                                 *)

Query(op, path, current, out) ==
    /\ mlast = NoQuery
    /\ mlast' = [op |-> op, path |-> path, current |-> current, out |-> out]
    /\ UNCHANGED <<INSTALLED_APPS, pool, interp, last, db, rlast>>

GetForPath(path) == Query("get_for_path", path, NULL, get_for_path(db, path))

GetForPathOr404(path) ==
    Query("get_for_path_or_404", path, NULL, get_for_path_or_404(db, path))

Published == Query("published", <<>>, NULL, MOutcome("", published(db)))

InNavigation == Query("in_navigation", <<>>, NULL, MOutcome("", in_navigation(db)))

ToplevelNavigation ==
    Query("toplevel_navigation", <<>>, NULL,
          MOutcome("", toplevel_navigation(db, FALSE, StaleRecord)))

ToplevelNavigationCurrent(c) ==
    Query("toplevel_navigation", <<>>, c.id,
          MOutcome("", toplevel_navigation(db, TRUE, c)))

ManagerInit ==
    /\ INSTALLED_APPS = [i \in 1..NumApps |-> AbsentModule]
    /\ pool = PoolInit
    /\ interp = InterpInit
    /\ last = NoCall
    /\ db \in Tables
    /\ mlast = NoQuery
    /\ rlast = NoRendering

ManagerNext ==
    \/ \E path \in Paths : GetForPath(path)
    \/ \E path \in Paths : GetForPathOr404(path)
    \/ Published
    \/ InNavigation
    \/ ToplevelNavigation
    \/ \E c \in db \cup {StaleRecord} : ToplevelNavigationCurrent(c)

ManagerSpec == ManagerInit /\ [][ManagerNext]_vars

---------------------------------------------------------------------------
(* The calls of get_response *)

ResponseInit ==
    /\ INSTALLED_APPS = [i \in 1..NumApps |-> AbsentModule]
    /\ pool = PoolInit
    /\ interp = InterpInit
    /\ last = NoCall
    /\ db = {}
    /\ mlast = NoQuery
    /\ rlast = NoRendering

ResponseNext ==
    \E plugin \in RenderPlugins, request \in Requests, page \in Pages :
        GetResponse(plugin, request, page)

ResponseSpec == ResponseInit /\ [][ResponseNext]_vars

---------------------------------------------------------------------------
(* Vocabulary of the properties *)

Getters == {"get_plugins", "get_model_classes", "get_plugin_by_model", "get_model_admin"}

\* the exceptions a getter hands on from the scan (its own are AssertionError
\* and PageTypeNotFound)
ScanFailed(out) ==
    out.exc.type \in {"ImportError", "PageTypeAlreadyRegistered", "AlreadyRegistered"}

\* a class register is meant to accept: a PageTypePlugin bound to a UrlNode model
IsPageTypePlugin(c) ==
    c.isPlugin /\ c.model # None /\ issubclass(c.model, "UrlNode")

Apps == 1..NumApps

---------------------------------------------------------------------------
(* C1 *)

---------------------------------------------------------------------------
(* C2 *)

---------------------------------------------------------------------------
(* C3 *)

\* C3: no two instances in plugins share a model, and plugins and
\* plugin_for_model are inverse to each other.
C3_MappingsInverse ==
    /\ \A n1, n2 \in DOMAIN pool.plugins :
          n1 # n2 => pool.plugins[n1].model # pool.plugins[n2].model
    /\ \A n \in DOMAIN pool.plugins :
          /\ pool.plugins[n].model \in DOMAIN pool.plugin_for_model
          /\ pool.plugin_for_model[pool.plugins[n].model] = n
    /\ \A m \in DOMAIN pool.plugin_for_model :
          pool.plugin_for_model[m] \in DOMAIN pool.plugins

---------------------------------------------------------------------------
(* C4 *)

\* C4: an import failure is passed over only for an app that has no
\* page_type_plugins submodule; a failure inside an existing module ends the
\* scan.  So a scan that completed found every existing module importable.
C4_BrokenModulePropagates ==
    pool.detected =>
        \A app \in Apps :
            INSTALLED_APPS[app].exists => app \in interp.sys_modules

---------------------------------------------------------------------------
(* C5 *)

\* C5: once register(P) has returned, get_plugin_by_model(P.model) returns the
\* instance that call created; for a UrlNode model no registered plugin is
\* bound to, it raises PageTypeNotFound.  (Calls that hand on a failure of the
\* scan are left aside.)
C5_LookupReturnsRegistered ==
    (last.op = "get_plugin_by_model" /\ ~ScanFailed(last.out)) =>
        /\ \A inst \in interp.returned :
              inst.model = last.arg =>
                  last.out.exc = NoExc /\ last.out.one = {inst}
        /\ ( /\ issubclass(last.arg, "UrlNode")
             /\ \A n \in DOMAIN pool.plugins : pool.plugins[n].model # last.arg )
           => last.out.exc.type = "PageTypeNotFound"

---------------------------------------------------------------------------
(* C6 *)

\* C6: get_model_admin(m) returns an instance of the model_admin type of the
\* plugin get_plugin_by_model(m) returns, and raises PageTypeNotFound for
\* exactly the models get_plugin_by_model raises it for.  (Calls that hand on
\* a failure of the scan are left aside.)
C6_AdminMatchesPlugin ==
    (last.op = "get_model_admin" /\ ~ScanFailed(last.out)) =>
        LET by_model == get_plugin_by_model(World(pool, interp), last.arg)
        IN  /\ last.out.exc.type = "PageTypeNotFound"
                 <=> by_model.exc.type = "PageTypeNotFound"
            /\ \A a \in last.out.one : \A p \in by_model.one :
                  a.cls = Class(p.cls).model_admin

---------------------------------------------------------------------------
(* C7 *)

\* C7: register(P) for a P that does not derive from PageTypePlugin, has no
\* model, or whose model is no UrlNode is refused by the upfront checks: it
\* raises AssertionError, not the name collision's exception, and changes
\* nothing of the pool.
C7_InvalidPluginRejected ==
    [][ (last'.op = "register" /\ ~IsPageTypePlugin(Class(last'.arg)))
        => /\ last'.out.exc.type = "AssertionError"
           /\ pool' = pool
      ]_vars

\* a class without a model, of a name that is registered, was refused by the checks
C7_Witness ==
    /\ last.op = "register"
    /\ Class(last.arg).model = None
    /\ Class(last.arg).name \in DOMAIN pool.plugins
    /\ last.out.exc.type = "AssertionError"

---------------------------------------------------------------------------
(* C8 *)

\* what is left of a path when every leading and trailing "/" is removed
Remainder(path) ==
    LET inner == {k \in 1..Len(path) : path[k] # "/"}
    IN  IF inner = {} THEN <<>>
        ELSE SubSeq(path, CHOOSE i \in inner : \A k \in inner : i <= k,
                          CHOOSE j \in inner : \A k \in inner : j >= k)

\* the normalized form of a path
Normalized(path) ==
    IF Remainder(path) = <<>> THEN <<"/">> ELSE <<"/">> \o Remainder(path) \o <<"/">>

\* C8: get_for_path(p) returns a record only if it is PUBLISHED and its cached
\* url is the normalized p, and raises DoesNotExist when no published record
\* has that url; get_for_path_or_404(p) returns what get_for_path(p) returns
\* and raises Http404 exactly where get_for_path(p) raises DoesNotExist.
C8_PublishedOnly ==
    /\ mlast.op = "get_for_path" =>
          /\ mlast.out.exc = "" =>
                /\ Cardinality(mlast.out.objs) = 1
                /\ \A o \in mlast.out.objs :
                      /\ o.row \in db
                      /\ o.row.status = PUBLISHED
                      /\ o.row._cached_url = Normalized(mlast.path)
          /\ (\A r \in db : ~(r.status = PUBLISHED /\ r._cached_url = Normalized(mlast.path)))
                => mlast.out.exc = "DoesNotExist"
    /\ mlast.op = "get_for_path_or_404" =>
          LET plain == get_for_path(db, mlast.path)
          IN  /\ plain.exc = "" => mlast.out = plain
              /\ mlast.out.exc = "Http404" <=> plain.exc = "DoesNotExist"
              /\ mlast.out.exc = "" =>
                    \A o \in mlast.out.objs :
                        o.row.status = PUBLISHED /\ o.row._cached_url = Normalized(mlast.path)

\* a path that only a draft has: get_for_path_or_404 raised Http404
C8_Witness ==
    /\ mlast.op = "get_for_path_or_404"
    /\ mlast.out.exc = "Http404"
    /\ \E r \in db : r.status = DRAFT /\ r._cached_url = Normalized(mlast.path)

---------------------------------------------------------------------------
(* C9 *)

\* C9: the lookup key of get_for_path is "/" when nothing remains of the path
\* once its leading and trailing "/" are removed, and "/" + remainder + "/"
\* otherwise; paths with the same remainder give the same result, and the
\* key of a key is that key.
C9_KeyDependsOnRemainder ==
    mlast.op = "get_for_path" =>
        /\ lookup_key(mlast.path) = Normalized(mlast.path)
        /\ lookup_key(lookup_key(mlast.path)) = lookup_key(mlast.path)
        /\ get_for_path(db, lookup_key(mlast.path)) = mlast.out
        /\ \A q \in Paths :
              Remainder(q) = Remainder(mlast.path) => get_for_path(db, q) = mlast.out

\* a path with a separator on both sides found the published record
C9_Witness ==
    /\ mlast.op = "get_for_path"
    /\ Len(mlast.path) = 3
    /\ mlast.path[1] = "/" /\ mlast.path[2] # "/" /\ mlast.path[3] = "/"
    /\ mlast.out.exc = ""

---------------------------------------------------------------------------
(* C10 *)

\* C10: toplevel_navigation(current_page=c) returns exactly the published
\* in-navigation records without a parent, each with an is_current marker;
\* the marker is true on the one record whose id is c.id when c is among
\* them, and on none otherwise.
C10_OneCurrentMarker ==
    (mlast.op = "toplevel_navigation" /\ mlast.current # NULL) =>
        LET objs == mlast.out.objs
            marked == {o \in objs : o.is_current = "True"}
        IN  /\ mlast.out.exc = ""
            /\ {o.row : o \in objs} =
                  {r \in db : r.status = PUBLISHED /\ r.in_navigation /\ r.parent = NULL}
            /\ Cardinality(objs) = Cardinality({o.row : o \in objs})
            /\ \A o \in objs : o.is_current \in {"True", "False"}
            /\ \A o \in objs : o.is_current = "True" <=> o.row.id = mlast.current
            /\ IF \E o \in objs : o.row.id = mlast.current
               THEN Cardinality(marked) = 1
               ELSE marked = {}

\* the current page is one of two top-level records: it alone is marked
C10_Witness ==
    /\ mlast.op = "toplevel_navigation"
    /\ mlast.current # NULL
    /\ Cardinality(mlast.out.objs) >= 2
    /\ Cardinality({o \in mlast.out.objs : o.is_current = "True"}) = 1
    /\ Cardinality({o \in mlast.out.objs : o.is_current = "False"}) >= 1

---------------------------------------------------------------------------
(* C11 *)

RowsOf(objs) == {o.row : o \in objs}

\* C11: toplevel_navigation() is within in_navigation(), which is within
\* published(), which is within the table; no draft and no record with
\* in_navigation = false is in in_navigation() or toplevel_navigation().
C11_FiltersMonotonic ==
    /\ mlast.op = "published" =>
          /\ RowsOf(mlast.out.objs) \subseteq db
          /\ RowsOf(in_navigation(db)) \subseteq RowsOf(mlast.out.objs)
    /\ mlast.op = "in_navigation" =>
          /\ RowsOf(mlast.out.objs) \subseteq RowsOf(published(db))
          /\ RowsOf(toplevel_navigation(db, FALSE, StaleRecord)) \subseteq RowsOf(mlast.out.objs)
          /\ \A r \in RowsOf(mlast.out.objs) : r.status # DRAFT /\ r.in_navigation
    /\ mlast.op = "toplevel_navigation" =>
          /\ RowsOf(mlast.out.objs) \subseteq RowsOf(in_navigation(db))
          /\ RowsOf(mlast.out.objs) \subseteq db
          /\ \A r \in RowsOf(mlast.out.objs) : r.status # DRAFT /\ r.in_navigation

\* in_navigation() left out a draft that has in_navigation set, and kept a record
C11_Witness ==
    /\ mlast.op = "in_navigation"
    /\ mlast.out.objs # {}
    /\ \E r \in db : r.status = DRAFT /\ r.in_navigation /\ r \notin RowsOf(mlast.out.objs)

---------------------------------------------------------------------------
(* C12 *)

RenderPlugin(name) == CHOOSE plugin \in RenderPlugins : plugin.name = name

\* what get_render_template hands to get_response: the page's layout template
\* for FluentPagePlugin, the render_template attribute for the others
TemplateOf(plugin, page) ==
    IF plugin.name = "FluentPagePlugin" THEN page.template_path ELSE plugin.render_template

---------------------------------------------------------------------------
(* C13 *)

\* C13: once register(P) has returned, in every later state P.__name__ is a
\* key of plugins mapped to the instance that call made, P.model is a key of
\* plugin_for_model mapped to P.__name__, and P.model is in the admin site's
\* registry.
C13_RegistryAppendOnly ==
    \A inst \in interp.returned :
        LET name == Class(inst.cls).name
        IN  /\ name \in DOMAIN pool.plugins
            /\ pool.plugins[name] = inst
            /\ inst.model \in DOMAIN pool.plugin_for_model
            /\ pool.plugin_for_model[inst.model] = name
            /\ inst.model \in DOMAIN pool.admin_site

---------------------------------------------------------------------------
(* C14 *)

\* C14: a getter that returns a value or raises PageTypeNotFound does so with
\* detected True, and detected True means the scan has been over every
\* installed app: each app's page_type_plugins module was imported to
\* completion, or passed over because the app has none, so every plugin the
\* modules register is in plugins.
C14_AnswersAfterFullScan ==
    /\ (last.op \in Getters /\ last.out.exc.type \in {"", "PageTypeNotFound"})
          => pool.detected
    /\ pool.detected =>
          \A app \in Apps :
              INSTALLED_APPS[app].exists =>
                  /\ app \in interp.sys_modules
                  /\ \A k \in 1..Len(INSTALLED_APPS[app].regs) :
                        Class(INSTALLED_APPS[app].regs[k]).name \in DOMAIN pool.plugins

---------------------------------------------------------------------------
(* C15 *)

\* C15: once detected is True a getter call, whether it returns or raises,
\* leaves plugins, plugin_for_model, the admin site's registry and detected
\* as they were; and a register call never runs the scan (no scan is started,
\* no module executed or imported) and never changes detected.
C15_GettersReadOnly ==
    [][ /\ (last'.op \in Getters /\ pool.detected) => pool' = pool
        /\ last'.op = "register" =>
              /\ pool'.detected = pool.detected
              /\ interp'.scans = interp.scans
              /\ interp'.execs = interp.execs
              /\ interp'.sys_modules = interp.sys_modules
      ]_vars

\* a getter that found the scan done raised PageTypeNotFound on a filled pool
C15_Witness ==
    /\ last.op = "get_plugin_by_model"
    /\ last.branch = "skip"
    /\ last.out.exc.type = "PageTypeNotFound"
    /\ pool.detected
    /\ DOMAIN pool.plugins # {}

---------------------------------------------------------------------------
(* C16 *)

\* C16: when the scan raises, detected stays False; what was registered stays
\* registered, with the plugins of the modules imported to completion; the
\* scan ends at the failing app, the apps after it being left alone; and the
\* call, like every getter call made while detected is False, ran the scan
\* from the first installed app.
C16_FailedScanRetried ==
    [][ /\ (last'.op \in Getters /\ ~pool.detected) =>
              last'.branch = "scan" /\ interp'.scans = interp.scans + 1
        /\ (last'.op \in Getters /\ ScanFailed(last'.out)) =>
              /\ ~pool.detected
              /\ ~pool'.detected
              /\ \A n \in DOMAIN pool.plugins :
                    n \in DOMAIN pool'.plugins /\ pool'.plugins[n] = pool.plugins[n]
              /\ interp.sys_modules \subseteq interp'.sys_modules
              /\ \A app \in interp'.sys_modules :
                    \A k \in 1..Len(INSTALLED_APPS[app].regs) :
                        Class(INSTALLED_APPS[app].regs[k]).name \in DOMAIN pool'.plugins
              /\ \E failing \in Apps :
                    /\ INSTALLED_APPS[failing].exists
                    /\ failing \notin interp'.sys_modules
                    /\ interp'.execs[failing] = interp.execs[failing] + 1
                    /\ \A app \in Apps :
                          app > failing =>
                              /\ interp'.execs[app] = interp.execs[app]
                              /\ app \in interp'.sys_modules <=> app \in interp.sys_modules
                    /\ \A app \in Apps :
                          (app < failing /\ INSTALLED_APPS[app].exists
                                         /\ app \notin interp.sys_modules)
                              => interp'.execs[app] = interp.execs[app] + 1
      ]_vars

\* the scan failed a second time, after a module was imported and its plugin kept
C16_Witness ==
    /\ last.op \in Getters
    /\ ScanFailed(last.out)
    /\ interp.scans = 2
    /\ ~pool.detected
    /\ interp.sys_modules # {}
    /\ \E app \in interp.sys_modules :
          \E k \in 1..Len(INSTALLED_APPS[app].regs) :
              Class(INSTALLED_APPS[app].regs[k]).name \in DOMAIN pool.plugins
    /\ \E app \in Apps : interp.execs[app] = 2

====
